---- MODULE Spec2Model ----
(***************************************************************************)
(* Verification model of robotoff's nutrient extraction                    *)
(* (robotoff/insights/ocr/nutrient.py) and of batch_insert                 *)
(* (robotoff/models.py).                                                   *)
(*                                                                         *)
(* Texts are sequences of one-character strings.  A regular expression is  *)
(* a tree of tagged records; Exec gives, for a tree, a text and a matcher  *)
(* state, the matcher states a backtracking engine reaches, in the order   *)
(* in which it tries them (greedy quantifiers, alternatives left to        *)
(* right), so that the head of the list is the match Python's re reports.  *)
(***************************************************************************)
EXTENDS Integers, Sequences, FiniteSets, TLC

\* ------------------------------------------------------------------------
\* Bounds of the model
\* ------------------------------------------------------------------------

\* Longest searched text, counted in tokens of Tokens.
MaxTokens == 3

\* Longest text searched with an exchanged mention list, in tokens.
MaxPermTokens == 2

\* Number of concurrent callers of find_nutrient_values/find_nutrient_mentions.
NumCallers == 2

\* Longest input of batch_insert and largest batch_size.
MaxItems == 4

MaxBatchSize == 3

\* ------------------------------------------------------------------------
\* Characters
\* ------------------------------------------------------------------------

Digits == {"0", "1", "2", "3", "4", "5", "6", "7", "8", "9"}

Letters ==
  {"a", "b", "c", "d", "e", "f", "g", "h", "i", "j", "k", "l", "m", "n", "o",
   "p", "q", "r", "s", "t", "u", "v", "w", "x", "y", "z",
   "ß", "á", "ä", "è", "é", "í", "ú",
   "A", "B", "C", "D", "E", "F", "G", "H", "I", "J", "K", "L", "M", "N", "O",
   "P", "Q", "R", "S", "T", "U", "V", "W", "X", "Y", "Z", "É", "È"}

\* The characters \w matches (str patterns: Unicode letters, digits, "_").
WordChars == Letters \cup Digits \cup {"_"}

\* ------------------------------------------------------------------------
\* Regular expressions: syntax
\* ------------------------------------------------------------------------

Cls(cs) == [t |-> "cls", cs |-> cs]

Chr(c) == Cls({c})

Cat(rs) == [t |-> "cat", rs |-> rs]

Str(s) == Cat([i \in 1..Len(s) |-> Chr(s[i])])

Alt(rs) == [t |-> "alt", rs |-> rs]

Opt(r) == [t |-> "opt", r |-> r]

Star(r) == [t |-> "star", r |-> r]

Plus(r) == [t |-> "plus", r |-> r]

Group(n, r) == [t |-> "grp", n |-> n, r |-> r]

\* (?<!\w)
NotAfterWord == [t |-> "nlb", cs |-> WordChars]

\* (?!\w)
NotBeforeWord == [t |-> "nla", cs |-> WordChars]

\* ------------------------------------------------------------------------
\* Regular expressions: backtracking matcher
\* ------------------------------------------------------------------------

\* A matcher state: the position reached (characters consumed so far) and the
\* spans of the groups closed so far.
MState(p) == [pos |-> p, caps |-> <<>>]

RECURSIVE Exec(_, _, _)
RECURSIVE ExecEach(_, _, _)
RECURSIVE ExecCat(_, _, _, _)
RECURSIVE ExecAlt(_, _, _, _)
RECURSIVE ExecStarEach(_, _, _)

SetCap(sts, n, from) ==
  [i \in 1..Len(sts) |->
     [sts[i] EXCEPT !.caps = (n :> <<from, sts[i].pos>>) @@ @]]

\* The states after r, from each state of sts in turn.
ExecEach(r, txt, sts) ==
  IF sts = <<>> THEN <<>>
  ELSE Exec(r, txt, Head(sts)) \o ExecEach(r, txt, Tail(sts))

ExecCat(rs, i, txt, sts) ==
  IF sts = <<>> \/ i > Len(rs) THEN sts
  ELSE ExecCat(rs, i + 1, txt, ExecEach(rs[i], txt, sts))

ExecAlt(rs, i, txt, st) ==
  IF i > Len(rs) THEN <<>>
  ELSE Exec(rs[i], txt, st) \o ExecAlt(rs, i + 1, txt, st)

\* Greedy r*: one more r where it consumes something, then r* again; the
\* empty repetition is tried last.
ExecStarEach(r, txt, sts) ==
  IF sts = <<>> THEN <<>>
  ELSE LET st == Head(sts)
           more == SelectSeq(Exec(r, txt, st), LAMBDA s : s.pos > st.pos)
       IN ExecStarEach(r, txt, more) \o <<st>> \o ExecStarEach(r, txt, Tail(sts))

Exec(r, txt, st) ==
  CASE r.t = "cls" ->
         IF st.pos < Len(txt) /\ txt[st.pos + 1] \in r.cs
         THEN <<[st EXCEPT !.pos = @ + 1]>>
         ELSE <<>>
    [] r.t = "cat" -> ExecCat(r.rs, 1, txt, <<st>>)
    [] r.t = "alt" -> ExecAlt(r.rs, 1, txt, st)
    [] r.t = "opt" -> Exec(r.r, txt, st) \o <<st>>
    [] r.t = "star" -> ExecStarEach(r.r, txt, <<st>>)
    [] r.t = "plus" -> ExecStarEach(r.r, txt, Exec(r.r, txt, st))
    [] r.t = "grp" -> SetCap(Exec(r.r, txt, st), r.n, st.pos)
    [] r.t = "nlb" ->
         IF st.pos > 0 /\ txt[st.pos] \in r.cs THEN <<>> ELSE <<st>>
    [] r.t = "nla" ->
         IF st.pos < Len(txt) /\ txt[st.pos + 1] \in r.cs THEN <<>> ELSE <<st>>

\* The match object of re: where the match starts and ends in the searched
\* text and the spans of its groups; NoMatch stands for None.
NoMatch == [start |-> -1, end |-> -1, caps |-> <<>>]

\* pattern.search(txt, from): the leftmost start at which the pattern
\* matches, with the first alternative the backtracking order reaches.
RECURSIVE Search(_, _, _)
Search(regex, txt, from) ==
  IF from > Len(txt) THEN NoMatch
  ELSE LET sts == Exec(regex, txt, MState(from))
       IN IF sts # <<>>
          THEN [start |-> from, end |-> Head(sts).pos, caps |-> Head(sts).caps]
          ELSE Search(regex, txt, from + 1)

\* match.group(n) and match.span()
MatchGroup(txt, m, n) ==
  IF n = 0 THEN SubSeq(txt, m.start + 1, m.end)
  ELSE SubSeq(txt, m.caps[n][1] + 1, m.caps[n][2])

\* Faulty variant of MatchSpan: offsets counted from 1.
SpanFromOne(m) == <<m.start + 1, m.end + 1>>

MatchSpan(m) == <<m.start, m.end>>

\* Where finditer resumes after the match m: at its end (one further after an
\* empty match, which no pattern of this module produces).
ResumeAt(m) == IF m.end = m.start THEN m.end + 1 ELSE m.end

\* Faulty variant of Replace: the string is left as captured.
KeepAll(s, old, new) == s

\* str.replace(old, new) for one-character old and new.
Replace(s, old, new) == [i \in 1..Len(s) |-> IF s[i] = old THEN new ELSE s[i]]

\* ------------------------------------------------------------------------
\* Ordered mappings (dict): sequences of <<key, value>> in insertion order
\* ------------------------------------------------------------------------

Keys(d) == {d[i][1] : i \in 1..Len(d)}

Get(d, k) == d[CHOOSE i \in 1..Len(d) : d[i][1] = k][2]

SetDefault(d, k, v) == IF k \in Keys(d) THEN d ELSE Append(d, <<k, v>>)

AppendTo(d, k, x) ==
  [i \in 1..Len(d) |-> IF d[i][1] = k THEN <<k, Append(d[i][2], x)>> ELSE d[i]]

\* ------------------------------------------------------------------------
\* nutrient.py: the tables
\* ------------------------------------------------------------------------

EXTRACTOR_VERSION == "1"

NUTRIENT_MENTION ==
  <<
    <<"energy", <<
        \* [ée]nergie
        <<Cat(<<Cls({"é", "e"}), Str(<<"n", "e", "r", "g", "i", "e">>)>>),
          <<"fr", "de">>>>,
        \* valeurs? [ée]nerg[ée]tiques?
        <<Cat(<<Str(<<"v", "a", "l", "e", "u", "r">>), Opt(Chr("s")), Str(<<" ">>), Cls({"é", "e"}), Str(<<"n", "e", "r", "g">>), Cls({"é", "e"}), Str(<<"t", "i", "q", "u", "e">>), Opt(Chr("s"))>>),
          <<"fr">>>>,
        \* energy
        <<Str(<<"e", "n", "e", "r", "g", "y">>),
          <<"en">>>>,
        \* calories
        <<Str(<<"c", "a", "l", "o", "r", "i", "e", "s">>),
          <<"fr", "en">>>>,
        \* energia
        <<Str(<<"e", "n", "e", "r", "g", "i", "a">>),
          <<"es">>>>,
        \* valor energ[ée]tico
        <<Cat(<<Str(<<"v", "a", "l", "o", "r", " ", "e", "n", "e", "r", "g">>), Cls({"é", "e"}), Str(<<"t", "i", "c", "o">>)>>),
          <<"es">>>>
    >>>>,
    <<"saturated_fat", <<
        \* mati[èe]res? grasses? satur[ée]s?
        <<Cat(<<Str(<<"m", "a", "t", "i">>), Cls({"è", "e"}), Str(<<"r", "e">>), Opt(Chr("s")), Str(<<" ", "g", "r", "a", "s", "s", "e">>), Opt(Chr("s")), Str(<<" ", "s", "a", "t", "u", "r">>), Cls({"é", "e"}), Opt(Chr("s"))>>),
          <<"fr">>>>,
        \* acides? gras satur[ée]s?
        <<Cat(<<Str(<<"a", "c", "i", "d", "e">>), Opt(Chr("s")), Str(<<" ", "g", "r", "a", "s", " ", "s", "a", "t", "u", "r">>), Cls({"é", "e"}), Opt(Chr("s"))>>),
          <<"fr">>>>,
        \* dont satur[ée]s?
        <<Cat(<<Str(<<"d", "o", "n", "t", " ", "s", "a", "t", "u", "r">>), Cls({"é", "e"}), Opt(Chr("s"))>>),
          <<"fr">>>>,
        \* saturated fat
        <<Str(<<"s", "a", "t", "u", "r", "a", "t", "e", "d", " ", "f", "a", "t">>),
          <<"en">>>>,
        \* of which saturates
        <<Str(<<"o", "f", " ", "w", "h", "i", "c", "h", " ", "s", "a", "t", "u", "r", "a", "t", "e", "s">>),
          <<"en">>>>,
        \* verzadigde vetzuren
        <<Str(<<"v", "e", "r", "z", "a", "d", "i", "g", "d", "e", " ", "v", "e", "t", "z", "u", "r", "e", "n">>),
          <<"nl">>>>,
        \* waarvan verzadigde
        <<Str(<<"w", "a", "a", "r", "v", "a", "n", " ", "v", "e", "r", "z", "a", "d", "i", "g", "d", "e">>),
          <<"nl">>>>,
        \* gesättigte fettsäuren
        <<Str(<<"g", "e", "s", "ä", "t", "t", "i", "g", "t", "e", " ", "f", "e", "t", "t", "s", "ä", "u", "r", "e", "n">>),
          <<"de">>>>,
        \* [aá]cidos grasos saturados
        <<Cat(<<Cls({"a", "á"}), Str(<<"c", "i", "d", "o", "s", " ", "g", "r", "a", "s", "o", "s", " ", "s", "a", "t", "u", "r", "a", "d", "o", "s">>)>>),
          <<"es">>>>
    >>>>,
    <<"trans_fat", <<
        \* mati[èe]res? grasses? trans
        <<Cat(<<Str(<<"m", "a", "t", "i">>), Cls({"è", "e"}), Str(<<"r", "e">>), Opt(Chr("s")), Str(<<" ", "g", "r", "a", "s", "s", "e">>), Opt(Chr("s")), Str(<<" ", "t", "r", "a", "n", "s">>)>>),
          <<"fr">>>>,
        \* trans fat
        <<Str(<<"t", "r", "a", "n", "s", " ", "f", "a", "t">>),
          <<"en">>>>
    >>>>,
    <<"fat", <<
        \* mati[èe]res? grasses?
        <<Cat(<<Str(<<"m", "a", "t", "i">>), Cls({"è", "e"}), Str(<<"r", "e">>), Opt(Chr("s")), Str(<<" ", "g", "r", "a", "s", "s", "e">>), Opt(Chr("s"))>>),
          <<"fr">>>>,
        \* graisses?
        <<Cat(<<Str(<<"g", "r", "a", "i", "s", "s", "e">>), Opt(Chr("s"))>>),
          <<"fr">>>>,
        \* lipides?
        <<Cat(<<Str(<<"l", "i", "p", "i", "d", "e">>), Opt(Chr("s"))>>),
          <<"fr">>>>,
        \* total fat
        <<Str(<<"t", "o", "t", "a", "l", " ", "f", "a", "t">>),
          <<"en">>>>,
        \* vetten
        <<Str(<<"v", "e", "t", "t", "e", "n">>),
          <<"nl">>>>,
        \* fett
        <<Str(<<"f", "e", "t", "t">>),
          <<"de">>>>,
        \* grasas
        <<Str(<<"g", "r", "a", "s", "a", "s">>),
          <<"es">>>>,
        \* l[íi]pidos
        <<Cat(<<Str(<<"l">>), Cls({"í", "i"}), Str(<<"p", "i", "d", "o", "s">>)>>),
          <<"es">>>>
    >>>>,
    <<"sugar", <<
        \* sucres?
        <<Cat(<<Str(<<"s", "u", "c", "r", "e">>), Opt(Chr("s"))>>),
          <<"fr">>>>,
        \* sugars?
        <<Cat(<<Str(<<"s", "u", "g", "a", "r">>), Opt(Chr("s"))>>),
          <<"en">>>>,
        \* suikers?
        <<Cat(<<Str(<<"s", "u", "i", "k", "e", "r">>), Opt(Chr("s"))>>),
          <<"nl">>>>,
        \* zucker
        <<Str(<<"z", "u", "c", "k", "e", "r">>),
          <<"de">>>>,
        \* az[úu]cares
        <<Cat(<<Str(<<"a", "z">>), Cls({"ú", "u"}), Str(<<"c", "a", "r", "e", "s">>)>>),
          <<"es">>>>
    >>>>,
    <<"carbohydrate", <<
        \* total carbohydrate
        <<Str(<<"t", "o", "t", "a", "l", " ", "c", "a", "r", "b", "o", "h", "y", "d", "r", "a", "t", "e">>),
          <<"en">>>>,
        \* glucids?
        <<Cat(<<Str(<<"g", "l", "u", "c", "i", "d">>), Opt(Chr("s"))>>),
          <<"fr">>>>,
        \* glucides?
        <<Cat(<<Str(<<"g", "l", "u", "c", "i", "d", "e">>), Opt(Chr("s"))>>),
          <<"en">>>>,
        \* koolhydraten
        <<Str(<<"k", "o", "o", "l", "h", "y", "d", "r", "a", "t", "e", "n">>),
          <<"nl">>>>,
        \* koolhydraat
        <<Str(<<"k", "o", "o", "l", "h", "y", "d", "r", "a", "a", "t">>),
          <<"nl">>>>,
        \* kohlenhydrate
        <<Str(<<"k", "o", "h", "l", "e", "n", "h", "y", "d", "r", "a", "t", "e">>),
          <<"de">>>>,
        \* hidratos de carbono
        <<Str(<<"h", "i", "d", "r", "a", "t", "o", "s", " ", "d", "e", " ", "c", "a", "r", "b", "o", "n", "o">>),
          <<"es">>>>
    >>>>,
    <<"protein", <<
        \* prot[ée]ines?
        <<Cat(<<Str(<<"p", "r", "o", "t">>), Cls({"é", "e"}), Str(<<"i", "n", "e">>), Opt(Chr("s"))>>),
          <<"fr">>>>,
        \* protein
        <<Str(<<"p", "r", "o", "t", "e", "i", "n">>),
          <<"en">>>>,
        \* eiwitten
        <<Str(<<"e", "i", "w", "i", "t", "t", "e", "n">>),
          <<"nl">>>>,
        \* eiweiß
        <<Str(<<"e", "i", "w", "e", "i", "ß">>),
          <<"de">>>>,
        \* prote[íi]nas
        <<Cat(<<Str(<<"p", "r", "o", "t", "e">>), Cls({"í", "i"}), Str(<<"n", "a", "s">>)>>),
          <<"es">>>>
    >>>>,
    <<"salt", <<
        \* sel
        <<Str(<<"s", "e", "l">>),
          <<"fr">>>>,
        \* salt
        <<Str(<<"s", "a", "l", "t">>),
          <<"en">>>>,
        \* zout
        <<Str(<<"z", "o", "u", "t">>),
          <<"nl">>>>,
        \* salz
        <<Str(<<"s", "a", "l", "z">>),
          <<"de">>>>,
        \* sal
        <<Str(<<"s", "a", "l">>),
          <<"es">>>>
    >>>>,
    <<"fiber", <<
        \* fibres?
        <<Cat(<<Str(<<"f", "i", "b", "r", "e">>), Opt(Chr("s"))>>),
          <<"en", "fr">>>>,
        \* fibers?
        <<Cat(<<Str(<<"f", "i", "b", "e", "r">>), Opt(Chr("s"))>>),
          <<"en">>>>,
        \* fibres? alimentaires?
        <<Cat(<<Str(<<"f", "i", "b", "r", "e">>), Opt(Chr("s")), Str(<<" ", "a", "l", "i", "m", "e", "n", "t", "a", "i", "r", "e">>), Opt(Chr("s"))>>),
          <<"fr">>>>,
        \* (?:voedings)?vezels?
        <<Cat(<<Opt(Str(<<"v", "o", "e", "d", "i", "n", "g", "s">>)), Str(<<"v", "e", "z", "e", "l">>), Opt(Chr("s"))>>),
          <<"nl">>>>,
        \* ballaststoffe
        <<Str(<<"b", "a", "l", "l", "a", "s", "t", "s", "t", "o", "f", "f", "e">>),
          <<"de">>>>,
        \* fibra(?: alimentaria)?
        <<Cat(<<Str(<<"f", "i", "b", "r", "a">>), Opt(Str(<<" ", "a", "l", "i", "m", "e", "n", "t", "a", "r", "i", "a">>))>>),
          <<"es">>>>
    >>>>,
    <<"nutrition_values", <<
        \* informations? nutritionnelles?(?: moyennes?)?
        <<Cat(<<Str(<<"i", "n", "f", "o", "r", "m", "a", "t", "i", "o", "n">>), Opt(Chr("s")), Str(<<" ", "n", "u", "t", "r", "i", "t", "i", "o", "n", "n", "e", "l", "l", "e">>), Opt(Chr("s")), Opt(Cat(<<Str(<<" ", "m", "o", "y", "e", "n", "n", "e">>), Opt(Chr("s"))>>))>>),
          <<"fr">>>>,
        \* valeurs? nutritionnelles?(?: moyennes?)?
        <<Cat(<<Str(<<"v", "a", "l", "e", "u", "r">>), Opt(Chr("s")), Str(<<" ", "n", "u", "t", "r", "i", "t", "i", "o", "n", "n", "e", "l", "l", "e">>), Opt(Chr("s")), Opt(Cat(<<Str(<<" ", "m", "o", "y", "e", "n", "n", "e">>), Opt(Chr("s"))>>))>>),
          <<"fr">>>>,
        \* analyse moyenne pour
        <<Str(<<"a", "n", "a", "l", "y", "s", "e", " ", "m", "o", "y", "e", "n", "n", "e", " ", "p", "o", "u", "r">>),
          <<"fr">>>>,
        \* valeurs? nutritives?
        <<Cat(<<Str(<<"v", "a", "l", "e", "u", "r">>), Opt(Chr("s")), Str(<<" ", "n", "u", "t", "r", "i", "t", "i", "v", "e">>), Opt(Chr("s"))>>),
          <<"fr">>>>,
        \* valeurs? moyennes?
        <<Cat(<<Str(<<"v", "a", "l", "e", "u", "r">>), Opt(Chr("s")), Str(<<" ", "m", "o", "y", "e", "n", "n", "e">>), Opt(Chr("s"))>>),
          <<"fr">>>>,
        \* nutrition facts?
        <<Cat(<<Str(<<"n", "u", "t", "r", "i", "t", "i", "o", "n", " ", "f", "a", "c", "t">>), Opt(Chr("s"))>>),
          <<"en">>>>,
        \* gemiddelde waarden per
        <<Str(<<"g", "e", "m", "i", "d", "d", "e", "l", "d", "e", " ", "w", "a", "a", "r", "d", "e", "n", " ", "p", "e", "r">>),
          <<"nl">>>>
    >>>>
  >>

NUTRIENT_UNITS ==
  <<
    <<"energy", <<Str(<<"k", "j">>), Str(<<"k", "c", "a", "l">>)>>>>,
    <<"saturated_fat", <<Str(<<"g">>)>>>>,
    <<"trans_fat", <<Str(<<"g">>)>>>>,
    <<"fat", <<Str(<<"g">>)>>>>,
    <<"sugar", <<Str(<<"g">>)>>>>,
    <<"carbohydrate", <<Str(<<"g">>)>>>>,
    <<"protein", <<Str(<<"g">>)>>>>,
    <<"salt", <<Str(<<"g">>)>>>>,
    <<"fiber", <<Str(<<"g">>)>>>>
  >>

\* Faulty variant of generate_nutrient_regex: " *" where the source has " ?"
\* after the mention.
LooseSpacesRegex(nutrient_mentions, units) ==
  LET nutrient_names ==
        [i \in 1..Len(nutrient_mentions) |-> nutrient_mentions[i][1]]
  IN Cat(<<NotAfterWord,
           Group(1, Alt(nutrient_names)),
           Star(Chr(" ")),
           Opt(Cat(<<Cls({":", "-"}), Opt(Chr(" "))>>)),
           Group(2, Cat(<<Plus(Cls(Digits)), Opt(Cls({",", "."})),
                          Star(Cls(Digits))>>)),
           Opt(Chr(" ")),
           Group(3, Alt(units)),
           NotBeforeWord>>)

generate_nutrient_regex(nutrient_mentions, units) ==
  LET nutrient_names ==
        [i \in 1..Len(nutrient_mentions) |-> nutrient_mentions[i][1]]
  IN Cat(<<NotAfterWord,
           Group(1, Alt(nutrient_names)),
           Opt(Chr(" ")),
           Opt(Cat(<<Cls({":", "-"}), Opt(Chr(" "))>>)),
           Group(2, Cat(<<Plus(Cls(Digits)), Opt(Cls({",", "."})),
                          Star(Cls(Digits))>>)),
           Opt(Chr(" ")),
           Group(3, Alt(units)),
           NotBeforeWord>>)

\* Faulty variant of generate_nutrient_mention_regex: no (?<!\w) in front.
UnanchoredMentionRegex(nutrient_mentions) ==
  LET nutrient_names ==
        [i \in 1..Len(nutrient_mentions) |-> nutrient_mentions[i][1]]
  IN Cat(<<Group(1, Alt(nutrient_names)), NotBeforeWord>>)

\* Faulty variant of generate_nutrient_mention_regex: no (?!\w) behind.
OpenEndedMentionRegex(nutrient_mentions) ==
  LET nutrient_names ==
        [i \in 1..Len(nutrient_mentions) |-> nutrient_mentions[i][1]]
  IN Cat(<<NotAfterWord, Group(1, Alt(nutrient_names))>>)

generate_nutrient_mention_regex(nutrient_mentions) ==
  LET nutrient_names ==
        [i \in 1..Len(nutrient_mentions) |-> nutrient_mentions[i][1]]
  IN Cat(<<NotAfterWord, Group(1, Alt(nutrient_names)), NotBeforeWord>>)

OCRRegex(regex, field, lowercase) ==
  [regex |-> regex, field |-> field, lowercase |-> lowercase]

NUTRIENT_VALUES_REGEX ==
  [i \in 1..Len(NUTRIENT_UNITS) |->
     <<NUTRIENT_UNITS[i][1],
       OCRRegex(generate_nutrient_regex(Get(NUTRIENT_MENTION, NUTRIENT_UNITS[i][1]),
                                        NUTRIENT_UNITS[i][2]),
                "full_text_contiguous", TRUE)>>]

NUTRIENT_MENTIONS_REGEX ==
  [i \in 1..Len(NUTRIENT_MENTION) |->
     <<NUTRIENT_MENTION[i][1],
       OCRRegex(generate_nutrient_mention_regex(NUTRIENT_MENTION[i][2]),
                "full_text_contiguous", TRUE)>>]

\* ------------------------------------------------------------------------
\* The text source (robotoff.insights.ocr.dataclass.get_text)
\* ------------------------------------------------------------------------

UpperToLower ==
  [c \in {"A", "B", "C", "D", "E", "F", "G", "H", "I", "J", "K", "L", "M", "N",
          "O", "P", "Q", "R", "S", "T", "U", "V", "W", "X", "Y", "Z", "É", "È"} |->
     CASE c = "A" -> "a" [] c = "B" -> "b" [] c = "C" -> "c" [] c = "D" -> "d"
       [] c = "E" -> "e" [] c = "F" -> "f" [] c = "G" -> "g" [] c = "H" -> "h"
       [] c = "I" -> "i" [] c = "J" -> "j" [] c = "K" -> "k" [] c = "L" -> "l"
       [] c = "M" -> "m" [] c = "N" -> "n" [] c = "O" -> "o" [] c = "P" -> "p"
       [] c = "Q" -> "q" [] c = "R" -> "r" [] c = "S" -> "s" [] c = "T" -> "t"
       [] c = "U" -> "u" [] c = "V" -> "v" [] c = "W" -> "w" [] c = "X" -> "x"
       [] c = "Y" -> "y" [] c = "Z" -> "z" [] c = "É" -> "é" [] c = "È" -> "è"]

Lower(s) ==
  [i \in 1..Len(s) |-> IF s[i] \in DOMAIN UpperToLower THEN UpperToLower[s[i]] ELSE s[i]]

\* A text carrier: a plain string, or an OCR result whose requested field may
\* hold no text.  What get_text returns: none (absent) or the string s.
StrContent(s) == [isStr |-> TRUE, present |-> TRUE, text |-> s]

OCRContent(present, s) == [isStr |-> FALSE, present |-> present, text |-> s]

get_text(cont, ocr_regex) ==
  IF ~cont.isStr /\ ~cont.present THEN [none |-> TRUE, s |-> <<>>]
  ELSE [none |-> FALSE,
        s |-> IF ocr_regex.lowercase THEN Lower(cont.text) ELSE cont.text]

\* Python's truth value of what get_text returned: `not text`.
NotText(t) == t.none \/ t.s = <<>>

\* ------------------------------------------------------------------------
\* nutrient.py: find_nutrient_values and find_nutrient_mentions
\* ------------------------------------------------------------------------

Callers == 1..NumCallers

VARIABLES
  pc,         \* per caller: "idle", "for", "finditer", "return", "done"
  op,         \* per caller: "values" (find_nutrient_values) or "mentions"
  content,    \* per caller: the argument of the call
  ki,         \* per caller: index of the table entry the for loop is at
  text,       \* per caller: the local variable text
  pos,        \* per caller: where the finditer iterator resumes
  match,      \* per caller: the local variable match (NoMatch before the first)
  nutrients,  \* per frame: the local variable nutrients
  result,     \* per caller: the returned list
  yielded     \* per caller (history): the kinds whose finditer has yielded a match

nvars == <<pc, op, content, ki, text, pos, match, nutrients, result, yielded>>

\* batch_insert (models.py)
VARIABLES
  bpc,         \* "idle", "for", "after" (past the loop), "done"
  data,        \* the argument data
  batch_size,  \* the argument batch_size
  bi,          \* how many items the for loop has taken from data
  rows,        \* the local variable rows
  inserts,     \* the local variable inserts
  executed,    \* the lists given to model_cls.insert_many(...).execute(), in order
  ret          \* the returned value

bvars == <<bpc, data, batch_size, bi, rows, inserts, executed, ret>>

\* A kind's matchers rebuilt from its mention list with two entries exchanged
VARIABLES
  ppc,           \* "idle", "built", "done"
  pKind,         \* index of the kind in NUTRIENT_MENTION
  pSwap,         \* the two positions of the kind's list that are exchanged
  pText,         \* the searched text
  mentionSpans,  \* <<spans in source order, spans in the exchanged order>>
  valueSpans     \* the same for the value matcher (empty for a kind without units)

pvars == <<ppc, pKind, pSwap, pText, mentionSpans, valueSpans>>

vars == <<nvars, bvars, pvars>>

\* The table a call iterates: dict.items() in insertion order.
Table(o) == IF o = "values" THEN NUTRIENT_VALUES_REGEX ELSE NUTRIENT_MENTIONS_REGEX

\* Faulty variant of Frame: one module-level dict shared by all calls.
SharedFrame(c) == 1

\* The frame holding the local variable nutrients of the call of caller c:
\* each call binds a fresh dict of its own.
Frame(c) == c

\* The dict appended for a match of the value regex.
ValueEntry(regex_code, txt, m) ==
  [raw |-> MatchGroup(txt, m, 0),
   nutrient |-> regex_code,
   value |-> Replace(MatchGroup(txt, m, 2), ",", "."),
   unit |-> MatchGroup(txt, m, 3)]

\* The dict appended for a match of the mention regex.
MentionEntry(txt, m) ==
  [raw |-> MatchGroup(txt, m, 0), span |-> MatchSpan(m)]

Entry(o, regex_code, txt, m) ==
  IF o = "values" THEN ValueEntry(regex_code, txt, m) ELSE MentionEntry(txt, m)

\* Faulty variant of Accumulate: the dict is rebound instead of extended.
AccumulateFresh(nutr, regex_code, entry) == <<<<regex_code, <<entry>>>>>>

\* nutrients.setdefault(regex_code, []); nutrients[regex_code].append(entry)
Accumulate(nutr, regex_code, entry) ==
  AppendTo(SetDefault(nutr, regex_code, <<>>), regex_code, entry)

\* Faulty variant of ValuesResult: the envelope is returned even when empty.
AlwaysEnvelope(nutr) == <<[nutrients |-> nutr, version |-> EXTRACTOR_VERSION]>>

\* Faulty variant of MentionsResult: the envelope of find_nutrient_values.
MentionsAsNutrients(nutr) ==
  IF nutr = <<>> THEN <<>>
  ELSE <<[nutrients |-> nutr, version |-> EXTRACTOR_VERSION]>>

\* The value returned once the loop is over.
ValuesResult(nutr) ==
  IF nutr = <<>> THEN <<>>
  ELSE <<[nutrients |-> nutr, version |-> EXTRACTOR_VERSION]>>

MentionsResult(nutr) ==
  IF nutr = <<>> THEN <<>>
  ELSE <<[mentions |-> nutr, version |-> EXTRACTOR_VERSION]>>

\* Top of the for loop: the next table entry, its text, and either `continue`
\* (no text) or a fresh finditer iterator; past the last entry, the loop ends.
NextKind(c) ==
  /\ pc[c] = "for"
  /\ LET tbl == Table(op[c])
     IN IF ki[c] > Len(tbl)
        THEN /\ pc' = [pc EXCEPT ![c] = "return"]
             /\ UNCHANGED <<ki, text, pos>>
        ELSE LET t == get_text(content[c], tbl[ki[c]][2])
             IN /\ text' = [text EXCEPT ![c] = t.s]
                /\ IF NotText(t)
                   THEN /\ ki' = [ki EXCEPT ![c] = @ + 1]
                        /\ UNCHANGED <<pc, pos>>
                   ELSE /\ pos' = [pos EXCEPT ![c] = 0]
                        /\ pc' = [pc EXCEPT ![c] = "finditer"]
                        /\ UNCHANGED ki
  /\ UNCHANGED <<op, content, match, nutrients, result, yielded>>
  /\ UNCHANGED <<bvars, pvars>>

\* One turn of `for match in ocr_regex.regex.finditer(text)`: the next match
\* and the body of the loop, or the end of the iterator.
NextMatch(c) ==
  /\ pc[c] = "finditer"
  /\ LET regex_code == Table(op[c])[ki[c]][1]
         ocr_regex == Table(op[c])[ki[c]][2]
         m == Search(ocr_regex.regex, text[c], pos[c])
     IN IF m = NoMatch
        THEN /\ ki' = [ki EXCEPT ![c] = @ + 1]
             /\ pc' = [pc EXCEPT ![c] = "for"]
             /\ UNCHANGED <<pos, match, nutrients, yielded>>
        ELSE /\ match' = [match EXCEPT ![c] = m]
             /\ yielded' = [yielded EXCEPT ![c] = @ \cup {regex_code}]
             /\ pos' = [pos EXCEPT ![c] = ResumeAt(m)]
             /\ nutrients' =
                  [nutrients EXCEPT ![Frame(c)] =
                     Accumulate(@, regex_code, Entry(op[c], regex_code, text[c], m))]
             /\ UNCHANGED <<pc, ki>>
  /\ UNCHANGED <<op, content, text, result>>
  /\ UNCHANGED <<bvars, pvars>>

Return(c) ==
  /\ pc[c] = "return"
  /\ result' = [result EXCEPT ![c] =
                  IF op[c] = "values" THEN ValuesResult(nutrients[Frame(c)])
                  ELSE MentionsResult(nutrients[Frame(c)])]
  /\ pc' = [pc EXCEPT ![c] = "done"]
  /\ UNCHANGED <<op, content, ki, text, pos, match, nutrients, yielded>>
  /\ UNCHANGED <<bvars, pvars>>

\* The same calls as functions of their argument: what a call returns when
\* nothing else runs.
RECURSIVE LoopMatches(_, _, _, _, _, _)
LoopMatches(o, regex_code, regex, txt, from, nutr) ==
  LET m == Search(regex, txt, from)
  IN IF m = NoMatch THEN nutr
     ELSE LoopMatches(o, regex_code, regex, txt, ResumeAt(m),
                      Accumulate(nutr, regex_code, Entry(o, regex_code, txt, m)))

RECURSIVE LoopKinds(_, _, _, _)
LoopKinds(o, cont, i, nutr) ==
  IF i > Len(Table(o)) THEN nutr
  ELSE LET t == get_text(cont, Table(o)[i][2])
       IN IF NotText(t) THEN LoopKinds(o, cont, i + 1, nutr)
          ELSE LoopKinds(o, cont, i + 1,
                         LoopMatches(o, Table(o)[i][1], Table(o)[i][2].regex,
                                     t.s, 0, nutr))

find_nutrient_values(cont) == ValuesResult(LoopKinds("values", cont, 1, <<>>))

find_nutrient_mentions(cont) == MentionsResult(LoopKinds("mentions", cont, 1, <<>>))

\* ------------------------------------------------------------------------
\* models.py: batch_insert
\* ------------------------------------------------------------------------

\* Faulty variant of BatchFull: rows is tested before it is incremented.
BatchFullBefore(n, size) == (n - 1) % size = 0

\* `rows % batch_size == 0`, with rows already incremented
BatchFull(n, size) == n % size = 0

\* One turn of `for item in data`, or the end of the loop.
BatchLoop ==
  /\ bpc = "for"
  /\ IF bi >= Len(data)
     THEN /\ bpc' = "after"
          /\ UNCHANGED <<bi, rows, inserts, executed>>
     ELSE LET item == data[bi + 1]
              appended == Append(inserts, item)
          IN /\ bi' = bi + 1
             /\ rows' = rows + 1
             /\ IF BatchFull(rows + 1, batch_size)
                THEN /\ executed' = Append(executed, appended)
                     /\ inserts' = <<>>
                ELSE /\ inserts' = appended
                     /\ UNCHANGED executed
             /\ UNCHANGED bpc
  /\ UNCHANGED <<data, batch_size, ret>>
  /\ UNCHANGED <<nvars, pvars>>

\* `if inserts: insert_many(inserts).execute()` and `return rows`
BatchReturn ==
  /\ bpc = "after"
  /\ executed' = IF inserts # <<>> THEN Append(executed, inserts) ELSE executed
  /\ ret' = rows
  /\ bpc' = "done"
  /\ UNCHANGED <<data, batch_size, bi, rows, inserts>>
  /\ UNCHANGED <<nvars, pvars>>

\* ------------------------------------------------------------------------
\* A kind's matchers with two entries of its mention list exchanged
\* ------------------------------------------------------------------------

Exchange(s, i, j) ==
  [k \in 1..Len(s) |-> IF k = i THEN s[j] ELSE IF k = j THEN s[i] ELSE s[k]]

\* The spans of all matches finditer yields.
RECURSIVE AllSpans(_, _, _)
AllSpans(regex, txt, from) ==
  LET m == Search(regex, txt, from)
  IN IF m = NoMatch THEN <<>>
     ELSE <<<<m.start, m.end>>>> \o AllSpans(regex, txt, ResumeAt(m))

HasUnits(kind) == kind \in Keys(NUTRIENT_UNITS)

\* Both matchers of the kind are built from the list in source order and from
\* the exchanged list, and each scans the text.
ScanBothOrders ==
  /\ ppc = "built"
  /\ LET kind == NUTRIENT_MENTION[pKind][1]
         mentions == NUTRIENT_MENTION[pKind][2]
         exchanged == Exchange(mentions, pSwap[1], pSwap[2])
     IN /\ mentionSpans' =
             <<AllSpans(generate_nutrient_mention_regex(mentions), pText, 0),
               AllSpans(generate_nutrient_mention_regex(exchanged), pText, 0)>>
        /\ valueSpans' =
             IF HasUnits(kind)
             THEN <<AllSpans(generate_nutrient_regex(mentions, Get(NUTRIENT_UNITS, kind)),
                             pText, 0),
                    AllSpans(generate_nutrient_regex(exchanged, Get(NUTRIENT_UNITS, kind)),
                             pText, 0)>>
             ELSE <<<<>>, <<>>>>
  /\ ppc' = "done"
  /\ UNCHANGED <<pKind, pSwap, pText>>
  /\ UNCHANGED <<nvars, bvars>>

\* ------------------------------------------------------------------------
\* Inputs
\* ------------------------------------------------------------------------

Tokens ==
  {<<"s", "e", "l">>,
   <<"f", "i", "b", "r", "e", "s">>,
   <<" ">>, <<":">>, <<"5">>, <<",">>, <<"g">>, <<"x">>}

RECURSIVE Join(_)
Join(ts) == IF ts = <<>> THEN <<>> ELSE Head(ts) \o Join(Tail(ts))

\* The texts made of at most n tokens.
TokenTexts(n) == {Join(ts) : ts \in UNION {[1..k -> Tokens] : k \in 0..n}}

\* The label of the specification's example scenarios, as printed
TextScenario ==
  <<"E", "n", "e", "r", "g", "i", "e", " ", "2", "5", "0", "k", "c", "a",
    "l", " ", "P", "r", "o", "t", "e", "i", "n", "e", "s", " ", "5", "g",
    " ", "S", "e", "l", " ", "0", ",", "1", "g">>

\* and lowercased
TextScenarioLower ==
  <<"e", "n", "e", "r", "g", "i", "e", " ", "2", "5", "0", "k", "c", "a",
    "l", " ", "p", "r", "o", "t", "e", "i", "n", "e", "s", " ", "5", "g",
    " ", "s", "e", "l", " ", "0", ",", "1", "g">>

\* "conseil d'utilisation"
TextConseil ==
  <<"c", "o", "n", "s", "e", "i", "l", " ", "d", "'", "u", "t", "i", "l",
    "i", "s", "a", "t", "i", "o", "n">>

\* "478 kcal"
TextBareNumber ==
  <<"4", "7", "8", " ", "k", "c", "a", "l">>

\* A mention, other text, then a number with its unit
TextSeparated ==
  <<"s", "e", "l", " ", "x", " ", "5", "g">>

\* "sel: 0,1 g"
TextSeparator ==
  <<"s", "e", "l", ":", " ", "0", ",", "1", " ", "g">>

\* "sel - 5g"
TextDash ==
  <<"s", "e", "l", " ", "-", " ", "5", "g">>

\* "sel  5g"
TextTwoSpaces ==
  <<"s", "e", "l", " ", " ", "5", "g">>

\* "fibres alimentaires"
TextFibres ==
  <<"f", "i", "b", "r", "e", "s", " ", "a", "l", "i", "m", "e", "n", "t",
    "a", "i", "r", "e", "s">>

\* "fibres alimentaires 5g"
TextFibresValue ==
  <<"f", "i", "b", "r", "e", "s", " ", "a", "l", "i", "m", "e", "n", "t",
    "a", "i", "r", "e", "s", " ", "5", "g">>

\* "sel 5gx"
TextUnitInWord ==
  <<"s", "e", "l", " ", "5", "g", "x">>

\* "sel 5.g"
TextTrailingDot ==
  <<"s", "e", "l", " ", "5", ".", "g">>

\* "matières grasses saturées 5g"
TextSaturated ==
  <<"m", "a", "t", "i", "è", "r", "e", "s", " ", "g", "r", "a", "s", "s",
    "e", "s", " ", "s", "a", "t", "u", "r", "é", "e", "s", " ", "5", "g">>

\* "energie 478 kj 5kcal"
TextTwoUnits ==
  <<"e", "n", "e", "r", "g", "i", "e", " ", "4", "7", "8", " ", "k", "j",
    " ", "5", "k", "c", "a", "l">>

\* "glucides 12g dont sucres 3,5g"
TextSugars ==
  <<"g", "l", "u", "c", "i", "d", "e", "s", " ", "1", "2", "g", " ", "d",
    "o", "n", "t", " ", "s", "u", "c", "r", "e", "s", " ", "3", ",", "5",
    "g">>

\* "salt 1g"
TextSalt ==
  <<"s", "a", "l", "t", " ", "1", "g">>

ExampleTexts ==
  {TextScenario,
   TextScenarioLower,
   TextConseil,
   TextBareNumber,
   TextSeparated,
   TextSeparator,
   TextDash,
   TextTwoSpaces,
   TextFibres,
   TextFibresValue,
   TextUnitInWord,
   TextTrailingDot,
   TextSaturated,
   TextTwoUnits,
   TextSugars,
   TextSalt}

Contents ==
  {StrContent(s) : s \in TokenTexts(MaxTokens) \cup ExampleTexts}
    \cup {OCRContent(FALSE, <<>>), OCRContent(TRUE, <<>>),
          OCRContent(TRUE, TextScenario)}

Ops == {"values", "mentions"}

\* What callers that run side by side are given.
ConcurrentInputs ==
  {<<"values", StrContent(TextSeparator)>>,
   <<"mentions", StrContent(TextFibresValue)>>}

Items == {"a", "b"}

BatchInputs == UNION {[1..n -> Items] : n \in 0..MaxItems}

PermTexts == TokenTexts(MaxPermTokens) \cup ExampleTexts

\* ------------------------------------------------------------------------
\* Specifications
\* ------------------------------------------------------------------------

NutrientLocals ==
  /\ ki = [c \in Callers |-> 1]
  /\ text = [c \in Callers |-> <<>>]
  /\ pos = [c \in Callers |-> 0]
  /\ match = [c \in Callers |-> NoMatch]
  /\ nutrients = [c \in Callers |-> <<>>]
  /\ result = [c \in Callers |-> <<>>]
  /\ yielded = [c \in Callers |-> {}]

NoCall ==
  /\ pc = [c \in Callers |-> "idle"]
  /\ op = [c \in Callers |-> "values"]
  /\ content = [c \in Callers |-> OCRContent(FALSE, <<>>)]
  /\ NutrientLocals

BatchLocals ==
  /\ bi = 0
  /\ rows = 0
  /\ inserts = <<>>
  /\ executed = <<>>
  /\ ret = 0

NoBatch ==
  /\ bpc = "idle"
  /\ data = <<>>
  /\ batch_size = 1
  /\ BatchLocals

NoPerm ==
  /\ ppc = "idle"
  /\ pKind = 1
  /\ pSwap = <<1, 1>>
  /\ pText = <<>>
  /\ mentionSpans = <<<<>>, <<>>>>
  /\ valueSpans = <<<<>>, <<>>>>

\* One call, by caller 1, of either function on any content.
Init ==
  /\ \E o \in Ops, x \in Contents :
       /\ op = [c \in Callers |-> IF c = 1 THEN o ELSE "values"]
       /\ content = [c \in Callers |-> IF c = 1 THEN x ELSE OCRContent(FALSE, <<>>)]
  /\ pc = [c \in Callers |-> IF c = 1 THEN "for" ELSE "idle"]
  /\ NutrientLocals
  /\ NoBatch
  /\ NoPerm

Next == \E c \in Callers : NextKind(c) \/ NextMatch(c) \/ Return(c)

Spec == Init /\ [][Next]_vars

\* Every caller calls; the calls run interleaved at every step.
InitConcurrent ==
  /\ \E f \in [Callers -> ConcurrentInputs] :
       /\ op = [c \in Callers |-> f[c][1]]
       /\ content = [c \in Callers |-> f[c][2]]
  /\ pc = [c \in Callers |-> "for"]
  /\ NutrientLocals
  /\ NoBatch
  /\ NoPerm

SpecConcurrent == InitConcurrent /\ [][Next]_vars

\* One call of batch_insert.
InitBatch ==
  /\ bpc = "for"
  /\ data \in BatchInputs
  /\ batch_size \in 1..MaxBatchSize
  /\ BatchLocals
  /\ NoCall
  /\ NoPerm

NextBatch == BatchLoop \/ BatchReturn

SpecBatch == InitBatch /\ [][NextBatch]_vars

\* One kind, one exchange of two entries of its list, one text.
InitPerm ==
  /\ ppc = "built"
  /\ pKind \in 1..Len(NUTRIENT_MENTION)
  /\ \E i, j \in 1..Len(NUTRIENT_MENTION[pKind][2]) : i < j /\ pSwap = <<i, j>>
  /\ pText \in PermTexts
  /\ mentionSpans = <<<<>>, <<>>>>
  /\ valueSpans = <<<<>>, <<>>>>
  /\ NoCall
  /\ NoBatch

NextPerm == ScanBothOrders

SpecPerm == InitPerm /\ [][NextPerm]_vars

\* ------------------------------------------------------------------------
\* Properties
\* ------------------------------------------------------------------------

\* The nutrients/mentions mapping of an envelope.
Mapping(o, envelope) == IF o = "values" THEN envelope.nutrients ELSE envelope.mentions

\* The matcher of the i-th entry of the table finds a match in the text it is
\* given for the content.
KindMatches(o, cont, i) ==
  LET t == get_text(cont, Table(o)[i][2])
  IN ~NotText(t) /\ Search(Table(o)[i][2].regex, t.s, 0) # NoMatch

Last(s) == s[Len(s)]

Chars(s) == {s[i] : i \in 1..Len(s)}

\* The call of caller c is inside the finditer loop of a kind that has already
\* yielded a match: match[c] is that kind's latest match and the last entry of
\* the kind's list was built from it.
FreshMatch(c) ==
  /\ pc[c] = "finditer"
  /\ Table(op[c])[ki[c]][1] \in Keys(nutrients[c])

LatestEntry(c) == Last(Get(nutrients[c], Table(op[c])[ki[c]][1]))

\* C1 (empty-result law): a finished call of find_nutrient_values or
\* find_nutrient_mentions returned the empty list when no kind's matcher finds
\* a match in its text (absent and empty texts included), and otherwise a list
\* of exactly one envelope with version "1" whose mapping is not empty.
C1_EmptyResultLaw ==
  \A c \in Callers :
    pc[c] = "done" =>
      IF \A i \in 1..Len(Table(op[c])) : ~KindMatches(op[c], content[c], i)
      THEN result[c] = <<>>
      ELSE /\ Len(result[c]) = 1
           /\ result[c][1].version = "1"
           /\ Mapping(op[c], result[c][1]) # <<>>

\* A call on a text that is there and not empty, in which nothing matches,
\* has returned the empty list.
C1_Witness ==
  \E c \in Callers :
    /\ pc[c] = "done"
    /\ content[c].isStr /\ content[c].text # <<>>
    /\ result[c] = <<>>

\* C2 (no key without match): at every step of a call, no key of the mapping
\* holds an empty list, and a kind is a key exactly when its matcher has
\* produced a match: the keys are the kinds whose finditer has yielded; the
\* kind being scanned is a key exactly when its first match in the searched
\* text has been passed; a kind still to come is no key.  The returned
\* envelope has exactly the kinds whose matcher finds a match in the text.
C2_NoKeyWithoutMatch ==
  \A c \in Callers :
    pc[c] # "idle" =>
      LET d == nutrients[c]
          tbl == Table(op[c])
      IN /\ \A j \in 1..Len(d) : d[j][2] # <<>>
         /\ Keys(d) = yielded[c]
         /\ Keys(d) \subseteq {tbl[i][1] : i \in 1..Len(tbl)}
         /\ \A i \in ki[c]..Len(tbl) :
              (tbl[i][1] \in Keys(d)) <=>
                 /\ i = ki[c]
                 /\ pc[c] = "finditer"
                 /\ LET m == Search(tbl[i][2].regex, text[c], 0)
                    IN m # NoMatch /\ m.end <= pos[c]
         /\ (pc[c] = "done" /\ result[c] # <<>>) =>
              Keys(Mapping(op[c], result[c][1])) =
                {tbl[i][1] : i \in {k \in 1..Len(tbl) : KindMatches(op[c], content[c], k)}}

\* A call has returned an envelope with two kinds or more, while another kind
\* of its table found nothing.
C2_Witness ==
  \E c \in Callers :
    /\ pc[c] = "done"
    /\ result[c] # <<>>
    /\ Cardinality(Keys(Mapping(op[c], result[c][1]))) >= 2

\* C3 (boundary exclusion): the character just before the start of a match of
\* a mention or value matcher, and the character just after its end, are not
\* word characters; both functions return [] on "conseil d'utilisation".
C3_BoundaryExclusion ==
  \A c \in Callers :
    /\ (pc[c] # "idle" /\ match[c] # NoMatch) =>
         /\ match[c].start = 0 \/ text[c][match[c].start] \notin WordChars
         /\ match[c].end = Len(text[c]) \/ text[c][match[c].end + 1] \notin WordChars
    /\ (pc[c] = "done" /\ content[c] = StrContent(TextConseil)) => result[c] = <<>>

\* A match with a character on either side.
C3_Witness ==
  \E c \in Callers :
    /\ FreshMatch(c)
    /\ match[c].start > 0
    /\ match[c].end < Len(text[c])

\* C4 (decimal normalization): the value of every ValueMatch is one or more
\* digits, then at most one ".", then digits, without ","; and it is the
\* captured number of its match with every "," turned into ".".
IsDecimal(v) ==
  \E k \in 1..Len(v) :
    /\ \A i \in 1..k : v[i] \in Digits
    /\ \/ k = Len(v)
       \/ v[k + 1] = "." /\ \A i \in (k + 2)..Len(v) : v[i] \in Digits

C4_DecimalNormalization ==
  \A c \in Callers :
    (pc[c] # "idle" /\ op[c] = "values") =>
      /\ \A j \in 1..Len(nutrients[c]) :
           \A k \in 1..Len(nutrients[c][j][2]) :
             LET v == nutrients[c][j][2][k].value
             IN IsDecimal(v) /\ "," \notin Chars(v)
      /\ FreshMatch(c) =>
           LET number == MatchGroup(text[c], match[c], 2)
               v == LatestEntry(c).value
           IN /\ Len(v) = Len(number)
              /\ \A i \in 1..Len(v) : v[i] = IF number[i] = "," THEN "." ELSE number[i]

\* A ValueMatch whose captured number holds a ",".
C4_Witness ==
  \E c \in Callers :
    /\ op[c] = "values"
    /\ FreshMatch(c)
    /\ "," \in Chars(MatchGroup(text[c], match[c], 2))

\* C5 (completeness of span): every MentionMatch {raw, span: [start, end]} has
\* 0 <= start < end <= length of the searched text, and the searched text
\* from start up to end is raw.
C5_SpanCompleteness ==
  \A c \in Callers :
    (pc[c] # "idle" /\ op[c] = "mentions") =>
      \A j \in 1..Len(nutrients[c]) :
        \A k \in 1..Len(nutrients[c][j][2]) :
          LET e == nutrients[c][j][2][k]
          IN /\ 0 <= e.span[1]
             /\ e.span[1] < e.span[2]
             /\ e.span[2] <= Len(text[c])
             /\ SubSeq(text[c], e.span[1] + 1, e.span[2]) = e.raw

\* A returned MentionMatch that does not start the text.
C5_Witness ==
  \E c \in Callers :
    /\ pc[c] = "done"
    /\ op[c] = "mentions"
    /\ \E j \in 1..Len(nutrients[c]) : nutrients[c][j][2][1].span[1] > 0

\* What may stand between the mention and the number of a value match: at
\* most one space, then optionally ":" or "-" with at most one space after it.
Gaps ==
  {<<>>, <<" ">>, <<":">>, <<"-">>, <<":", " ">>, <<"-", " ">>,
   <<" ", ":">>, <<" ", "-">>, <<" ", ":", " ">>, <<" ", "-", " ">>}

\* r matches the text exactly from position from up to position to.
MatchesExactly(r, txt, from, to) ==
  \E i \in 1..Len(Exec(r, txt, MState(from))) : Exec(r, txt, MState(from))[i].pos = to

\* digits, then at most one "," or ".", then digits
IsNumber(s) ==
  \E k \in 1..Len(s) :
    /\ \A i \in 1..k : s[i] \in Digits
    /\ \/ k = Len(s)
       \/ s[k + 1] \in {",", "."} /\ \A i \in (k + 2)..Len(s) : s[i] \in Digits

\* C7 (adjacency): a ValueMatch of a kind is produced only where a mention
\* fragment of the kind is followed by at most one space, an optional ":" or
\* "-" with at most one space after it, the number, at most one space and a
\* unit of the kind.  "478 kcal" yields [] from find_nutrient_values.  On
\* "sel x 5g", where other text separates mention and number,
\* find_nutrient_values yields [] and find_nutrient_mentions reports the
\* mention "sel" at [0, 3].
C7_Adjacency ==
  \A c \in Callers :
    /\ (op[c] = "values" /\ FreshMatch(c)) =>
         LET m == match[c]
             kind == Table(op[c])[ki[c]][1]
             mentions == Get(NUTRIENT_MENTION, kind)
             units == Get(NUTRIENT_UNITS, kind)
             g1 == m.caps[1]
             g2 == m.caps[2]
             g3 == m.caps[3]
         IN /\ g1[1] = m.start
            /\ \E i \in 1..Len(mentions) :
                 MatchesExactly(mentions[i][1], text[c], g1[1], g1[2])
            /\ SubSeq(text[c], g1[2] + 1, g2[1]) \in Gaps
            /\ IsNumber(SubSeq(text[c], g2[1] + 1, g2[2]))
            /\ SubSeq(text[c], g2[2] + 1, g3[1]) \in {<<>>, <<" ">>}
            /\ \E i \in 1..Len(units) :
                 MatchesExactly(units[i], text[c], g3[1], g3[2])
            /\ g3[2] = m.end
            /\ LatestEntry(c).raw = SubSeq(text[c], m.start + 1, m.end)
    /\ (pc[c] = "done" /\ op[c] = "values"
          /\ content[c] = StrContent(TextBareNumber)) => result[c] = <<>>
    /\ (pc[c] = "done" /\ content[c] = StrContent(TextSeparated)) =>
         IF op[c] = "values" THEN result[c] = <<>>
         ELSE result[c] =
                <<[mentions |-> <<<<"salt", <<[raw |-> <<"s", "e", "l">>,
                                             span |-> <<0, 3>>]>>>>>>,
                   version |-> "1"]>>

\* A ValueMatch whose mention and number are separated by ": ".
C7_Witness ==
  \E c \in Callers :
    /\ op[c] = "values"
    /\ FreshMatch(c)
    /\ SubSeq(text[c], match[c].caps[1][2] + 1, match[c].caps[2][1]) = <<":", " ">>

\* The envelope of example scenario 2, with the span given for "sel".
ScenarioEnvelope(saltSpan) ==
  <<[mentions |->
       <<<<"energy",
           <<[raw |-> <<"e", "n", "e", "r", "g", "i", "e">>,
              span |-> <<0, 7>>]>>>>,
         <<"protein",
           <<[raw |-> <<"p", "r", "o", "t", "e", "i", "n", "e", "s">>,
              span |-> <<16, 25>>]>>>>,
         <<"salt", <<[raw |-> <<"s", "e", "l">>, span |-> saltSpan]>>>>>>,
     version |-> "1"]>>

ScenarioReturned(c) ==
  /\ pc[c] = "done"
  /\ op[c] = "mentions"
  /\ content[c] = StrContent(TextScenarioLower)

\* C8 (example scenario 2), as stated: find_nutrient_mentions on
\* "energie 250kcal proteines 5g sel 0,1g" returns one envelope with version
\* "1" whose mentions are energy: "energie" at [0, 7], protein: "proteines" at
\* [16, 25] and salt: "sel" at [28, 31], and no other kind.
C8_ScenarioAsStated ==
  \A c \in Callers : ScenarioReturned(c) => result[c] = ScenarioEnvelope(<<28, 31>>)

\* C8 (example scenario 2), amended: the same envelope with "sel" at
\* [29, 32], where the lowercased text has it.
C8_ScenarioMentions ==
  \A c \in Callers : ScenarioReturned(c) => result[c] = ScenarioEnvelope(<<29, 32>>)

\* The call of the scenario has returned.
C8_Witness == \E c \in Callers : ScenarioReturned(c) /\ result[c] # <<>>

\* What each input given to concurrent callers returns when its call runs
\* alone.
AloneResult ==
  [x \in ConcurrentInputs |->
     IF x[1] = "values" THEN find_nutrient_values(x[2])
     ELSE find_nutrient_mentions(x[2])]

ReturnsAsAlone ==
  \A c \in Callers :
    pc[c] = "done" =>
      /\ result[c] = AloneResult[<<op[c], content[c]>>]
      /\ \A d \in Callers :
           (pc[d] = "done" /\ op[d] = op[c] /\ content[d] = content[c]) =>
             result[d] = result[c]

\* A step leaves alone the mapping and the other locals of every call that
\* does not move in it.
OwnFrameOnly ==
  \A d \in Callers :
    (pc'[d] = pc[d] /\ ki'[d] = ki[d] /\ pos'[d] = pos[d]) =>
      /\ nutrients'[d] = nutrients[d]
      /\ text'[d] = text[d]
      /\ match'[d] = match[d]
      /\ result'[d] = result[d]

\* C6 (lock-free concurrent use): with the calls of all callers interleaved at
\* every step, each call returns what it returns when run alone on the same
\* input, two calls on the same input return the same ordered result, and no
\* step of one call writes to the mapping or the locals of another.
C6_ConcurrentUse == []ReturnsAsAlone /\ [][OwnFrameOnly]_vars

\* One call has returned its envelope while another, on a different input, is
\* inside its finditer loop with matches accumulated.
C6_Witness ==
  \E c, d \in Callers :
    /\ pc[c] = "done" /\ result[c] # <<>>
    /\ pc[d] = "finditer" /\ nutrients[d] # <<>>
    /\ content[d] # content[c]

SpanSet(spans) == {spans[i] : i \in 1..Len(spans)}

PermDone == ppc = "done"

\* C9 (fragment order), as stated: exchanging entries of a kind's mention list
\* leaves the set of spans matched by the kind's mention matcher, and by its
\* value matcher, unchanged.
C9_OrderAsStated ==
  PermDone =>
    /\ SpanSet(mentionSpans[1]) = SpanSet(mentionSpans[2])
    /\ SpanSet(valueSpans[1]) = SpanSet(valueSpans[2])

\* C9 (fragment order), amended: exchanging entries of a kind's mention list
\* leaves the spans matched by its value matcher unchanged, and those matched
\* by its mention matcher unchanged unless the kind is fiber and the exchange
\* puts "fibres? alimentaires?" (third in the source) before "fibres?"
\* (first): then the mention match on "fibres alimentaires" is [0, 19], where
\* the source order gives [0, 6].
C9_FragmentOrder ==
  PermDone =>
    LET kind == NUTRIENT_MENTION[pKind][1]
        longerFirst == kind = "fiber" /\ pSwap[1] = 1 /\ pSwap[2] >= 3
    IN /\ valueSpans[1] = valueSpans[2]
       /\ ~longerFirst => mentionSpans[1] = mentionSpans[2]
       /\ (longerFirst /\ pText = TextFibres) =>
            /\ mentionSpans[1] = <<<<0, 6>>>>
            /\ mentionSpans[2] = <<<<0, 19>>>>

\* "fibres alimentaires 5g" with the first and third fiber entries exchanged:
\* the value matcher matches, through different alternatives tried first.
C9_Witness ==
  /\ PermDone
  /\ NUTRIENT_MENTION[pKind][1] = "fiber"
  /\ pSwap = <<1, 3>>
  /\ pText = TextFibresValue
  /\ valueSpans[1] # <<>>

\* C10 (batch_insert): batch_insert returns the number of items of data; the
\* lists given to insert_many, one after the other, are data; none is empty;
\* each but the last has batch_size items and the last between 1 and
\* batch_size; for empty data insert_many is not called and 0 is returned.
C10_Batching ==
  bpc = "done" =>
    /\ ret = Len(data)
    /\ Join(executed) = data
    /\ \A k \in 1..Len(executed) :
         /\ executed[k] # <<>>
         /\ k < Len(executed) => Len(executed[k]) = batch_size
         /\ Len(executed[k]) <= batch_size
    /\ data = <<>> => (executed = <<>> /\ ret = 0)

\* Several calls of insert_many, the last with fewer than batch_size items.
C10_Witness ==
  /\ bpc = "done"
  /\ Len(executed) >= 2
  /\ Len(Last(executed)) < batch_size

====
